---- MODULE Spec2Model ----
(***************************************************************************)
(* Model of src/conf_mode/service_ssh.py (VyOS "service ssh" conf-mode     *)
(* script): the get_config -> verify -> generate -> apply pipeline, the    *)
(* trusted-user-CA handler with its authorized_principals directory, and   *)
(* the systemd calls issued by apply.                                      *)
(*                                                                         *)
(* The filesystem is the record fs; every os.* / write_file / render /     *)
(* call() made by the script is appended to log in program order, so that  *)
(* ordering statements can be read off the log.  Each stage of __main__ is *)
(* one action; a stage is computed by an operator that follows the code    *)
(* statement by statement and threads the record st = [fs, log, exc].      *)
(***************************************************************************)
EXTENDS Integers, Sequences, FiniteSets, TLC

VARIABLES
    pc,       \* position of __main__: next stage to run, or how it ended
    ssh,      \* the snapshot returned by get_config (None when absent)
    fs,       \* filesystem: host keys, trust-anchor file, principal dir, configs
    log,      \* filesystem mutations and call()s of the current run, in order
    exc,      \* exception that ended the current run ("none" if none)
    raisedIn, \* stage in which exc was raised ("none" if none)
    stages,   \* stages of __main__ entered in the current run, in order
    fs0,      \* fs when the current run started
    repeat,   \* the current run uses the same snapshot as the previous run
    runs,     \* number of runs started so far
    keys0,    \* host key types whose file existed before the first run
    keygens,  \* per host key type, the ssh-keygen calls made over all runs
    crashes,  \* number of runs killed in the middle of generate so far
    target,   \* after such a kill: the filesystem generate would have left
    running,  \* VRFs whose ssh@<vrf>.service instance is running
    applied,  \* VRFs of the last snapshot that was applied
    rrExact   \* so far restart_required was set exactly when the VRFs changed

hvars == <<keys0, keygens, crashes, target>>
svars == <<running, applied, rrExact>>
vars == <<pc, ssh, fs, log, exc, raisedIn, stages, fs0, repeat, runs, keys0, keygens,
          crashes, target, running, applied, rrExact>>

----------------------------------------------------------------------------
(* Bounds of the model *)

MaxPrincipals == 2   \* longest principal list of one bound user
MaxRuns == 2         \* pipeline runs in one behaviour
MaxCrashes == 1      \* runs killed during generate in one behaviour

----------------------------------------------------------------------------
(* Names used as inputs *)

Users == {"alice", "bob"}               \* users that may be bound
Names == {"alice", "bob", "carol"}      \* entry names in the principal directory
Principals == {"p1", "p2"}
KeyTypes == <<"rsa", "dsa", "ed25519">>
NL == "\n"

\* the fixed paths of the script, used as log targets
config_file == "/run/sshd/sshd_config"
sshguard_config_file == "/etc/sshguard/sshguard.conf"
sshguard_whitelist == "/etc/sshguard/whitelist"
trusted_user_ca_key == "/etc/ssh/trusted_user_ca_key"
authorized_principals == "/etc/ssh/authorized_principals"
ssh_service == "ssh@.service"            \* template unit; the instance is the log entry's name
systemd_service_sshguard == "sshguard.service"
Wildcard == "*"

----------------------------------------------------------------------------
(* Certificates.  The configuration carries PEM text; load_certificate      *)
(* parses it into an object with subject and issuer, encode_certificate     *)
(* gives the PEM text of an object.                                         *)

Pems == {"pem_sub", "pem_int", "pem_root", "pem_orphan", "pem_other",
         "pem_a", "pem_b"}

CertSubject(pem) ==
    CASE pem = "pem_sub" -> "Sub CA"
      [] pem = "pem_int" -> "Int CA"
      [] pem = "pem_root" -> "Root CA"
      [] pem = "pem_orphan" -> "Orphan CA"
      [] pem = "pem_other" -> "Other CA"
      [] pem = "pem_a" -> "A CA"
      [] pem = "pem_b" -> "B CA"

\* Sub CA <- Int CA <- Root CA (self-signed); Other CA is a second root;
\* Orphan CA's issuer is in no pool; A CA and B CA issued each other
CertIssuer(pem) ==
    CASE pem = "pem_sub" -> "Int CA"
      [] pem = "pem_int" -> "Root CA"
      [] pem = "pem_root" -> "Root CA"
      [] pem = "pem_orphan" -> "Lost CA"
      [] pem = "pem_other" -> "Other CA"
      [] pem = "pem_a" -> "B CA"
      [] pem = "pem_b" -> "A CA"

load_certificate(pem) ==
    [subject |-> CertSubject(pem), issuer |-> CertIssuer(pem), pem |-> pem]

encode_certificate(c) == c.pem

IsSelfSigned(c) == c.subject = c.issuer

\* find_chain(cert, pool): walk from cert to a self-signed root by matching
\* each tail's issuer to a pool certificate's subject; no match, or a match
\* already in the chain, ends the walk with IncompleteChainError.
RECURSIVE ChainWalk(_, _)
ChainWalk(chain, pool) ==
    LET tail == chain[Len(chain)]
        cands == {c \in pool : c.subject = tail.issuer}
    IN  IF IsSelfSigned(tail) THEN [ok |-> TRUE, chain |-> chain]
        ELSE IF cands = {} THEN [ok |-> FALSE, chain |-> chain]
        ELSE LET nxt == CHOOSE c \in cands : TRUE
             IN  IF \E i \in 1..Len(chain) : chain[i] = nxt
                 THEN [ok |-> FALSE, chain |-> chain]
                 ELSE ChainWalk(Append(chain, nxt), pool)

find_chain(cert, pool) == ChainWalk(<<cert>>, pool)

----------------------------------------------------------------------------
(* Sequence helpers *)

Range(s) == {s[i] : i \in 1..Len(s)}

\* all sequences over S of length lo..hi
SeqsOf(S, lo, hi) == UNION {[1..n -> S] : n \in lo..hi}

\* sep.join(parts) of Python, as a sequence of tokens
RECURSIVE Join(_, _)
Join(parts, sep) ==
    IF Len(parts) = 0 THEN <<>>
    ELSE IF Len(parts) = 1 THEN <<parts[1]>>
    ELSE <<parts[1], sep>> \o Join(Tail(parts), sep)

----------------------------------------------------------------------------
(* The snapshot (the dict ssh of the script).                               *)
(*   present            FALSE models get_config() returning None            *)
(*   rekey              "none": no 'rekey' key; "nodata": 'rekey' without   *)
(*                      'data'; "data": 'rekey' with 'data'                 *)
(*   tca                ssh['trusted_user_ca_key']: present, has_ca / ca    *)
(*                      ('ca_certificate'), has_bind / bind (the CLI node   *)
(*                      bind-user, a dict kept as the sequence of its items *)
(*                      in iteration order), bind_key (the key of the dict  *)
(*                      that holds it)                                      *)
(*   pki                ssh['pki']['ca']: CA name -> [has_cert, cert]       *)
(*   login_users        keys of ssh['login_users']                          *)
(*   dynamic_protection 'dynamic_protection' in ssh                         *)
(*   restart_required   'restart_required' in ssh                           *)
(*   vrf                ssh['vrf'], a list of distinct VRF names            *)
(*   vrf_missing        the host lacks a declared VRF (what verify_vrf      *)
(*                      looks at)                                           *)

NoBinding == <<>>

\* key_mangling=('-', '_') of get_config_dict (line 131): the dict key of a
\* CLI node has every '-' replaced by '_'
Mangle(node) ==
    CASE node = "trusted-user-ca-key" -> "trusted_user_ca_key"
      [] node = "ca-certificate" -> "ca_certificate"
      [] node = "bind-user" -> "bind_user"
      [] node = "dynamic-protection" -> "dynamic_protection"
      [] OTHER -> node

NoTca == [present |-> FALSE, has_ca |-> FALSE, ca |-> "", has_bind |-> FALSE,
          bind_key |-> Mangle("bind-user"), bind |-> NoBinding]

\* ca1 is an intermediate CA issued by the self-signed ca2
GoodPki == [n \in {"ca1", "ca2"} |->
              [has_cert |-> TRUE,
               cert |-> IF n = "ca1" THEN "pem_int" ELSE "pem_root"]]

None == [present |-> FALSE, rekey |-> "none", tca |-> NoTca, pki |-> GoodPki,
         login_users |-> {}, dynamic_protection |-> FALSE,
         restart_required |-> FALSE, vrf |-> <<>>, vrf_missing |-> FALSE]

\* a bound user's 'principal' value: absent, a plain string, or a list
NoPrincipal == [kind |-> "missing", s |-> "", l |-> <<>>]
StrPrincipal(p) == [kind |-> "str", s |-> p, l |-> <<>>]
ListPrincipal(ps) == [kind |-> "list", s |-> "", l |-> ps]

PrincipalValues ==
    {NoPrincipal} \cup {StrPrincipal("p1")}
      \cup {ListPrincipal(ps) : ps \in SeqsOf(Principals, 1, MaxPrincipals)}

Item(u, v) == [user |-> u, principal |-> v]

\* bind-user dicts over Users, as item sequences without a repeated key
BindMaps ==
    {<<>>}
      \cup {<<Item(u, v)>> : u \in Users, v \in PrincipalValues}
      \cup {<<Item(q[1], v), Item(q[2], x)>> :
               q \in {r \in Users \X Users : r[1] # r[2]}, v \in PrincipalValues,
               x \in {NoPrincipal, StrPrincipal("p2"), ListPrincipal(<<"p2", "p1">>)}}

GoodTca == [present |-> TRUE, has_ca |-> TRUE, ca |-> "ca1", has_bind |-> FALSE,
            bind_key |-> Mangle("bind-user"), bind |-> NoBinding]

BaseSsh == [present |-> TRUE, rekey |-> "none", tca |-> NoTca, pki |-> GoodPki,
            login_users |-> {"alice", "bob"}, dynamic_protection |-> FALSE,
            restart_required |-> FALSE, vrf |-> <<"default">>,
            vrf_missing |-> FALSE]

\* snapshots that vary the user bindings
SnapBind ==
    {[BaseSsh EXCEPT !.tca = [GoodTca EXCEPT !.has_bind = TRUE, !.bind = b],
                     !.login_users = lu] :
        b \in BindMaps, lu \in {{"alice", "bob"}, {"alice"}}}

VrfLists == {<<"default">>, <<"mgmt">>, <<"default", "mgmt">>, <<"mgmt", "red">>}

\* snapshots that vary what apply looks at
SnapApply ==
    {[BaseSsh EXCEPT !.dynamic_protection = dp, !.restart_required = rr,
                     !.vrf = v, !.tca = t] :
        dp \in BOOLEAN, rr \in BOOLEAN, v \in VrfLists, t \in {NoTca, GoodTca}}

PkiVariants ==
    {GoodPki,
     [n \in {"ca2"} |-> GoodPki[n]],                                 \* ca1 not in pki
     [GoodPki EXCEPT !["ca1"] = [has_cert |-> FALSE, cert |-> ""]],  \* no 'certificate'
     [GoodPki EXCEPT !["ca1"] = [has_cert |-> TRUE, cert |-> ""]],   \* empty certificate
     [n \in {"ca1"} |-> GoodPki[n]],                                 \* root not in the pool
     [GoodPki EXCEPT !["ca1"] = [has_cert |-> TRUE, cert |-> "pem_orphan"]]}

\* snapshots that vary what verify looks at
SnapVerify ==
    {[BaseSsh EXCEPT !.rekey = rk, !.tca = t, !.pki = pk, !.vrf_missing = vm] :
        rk \in {"none", "nodata", "data"},
        t \in {NoTca, GoodTca, [GoodTca EXCEPT !.has_ca = FALSE, !.ca = ""],
               [GoodTca EXCEPT !.has_bind = TRUE,
                               !.bind = <<Item("bob", NoPrincipal)>>]},
        pk \in PkiVariants, vm \in BOOLEAN}

\* snapshots that vary the trust anchor's CA and the pool of CA certificates;
\* each CA is named after its certificate
SnapChain ==
    {[BaseSsh EXCEPT !.tca = [GoodTca EXCEPT !.ca = q[1]],
                     !.pki = [n \in q[2] |-> [has_cert |-> TRUE, cert |-> n]]] :
        q \in {r \in Pems \X SUBSET Pems : r[1] \in r[2]}}

Snapshots == {None} \cup SnapBind \cup SnapApply \cup SnapVerify

\* configurations committed after the first run: the removal of the service
\* and the snapshots without a trust anchor that vary VRFs and protection
LaterSnapshots == {None} \cup {s \in SnapApply : ~s.tca.present}

----------------------------------------------------------------------------
(* The filesystem.                                                          *)
(*   keys   host key types whose key file exists                            *)
(*   tca    the trust-anchor file: exists, data (token sequence)            *)
(*   dir    the principal directory: exists, ents: name -> entry, an entry  *)
(*          being nothing, a regular file with its content, or a            *)
(*          subdirectory                                                    *)
(*   conf, guard, white   rendered files: exists, tmpl, data (the dict the  *)
(*          template was rendered from)                                     *)

NoEntry == [kind |-> "none", data |-> <<>>]
FileEntry(d) == [kind |-> "file", data |-> d]
SubDir == [kind |-> "dir", data |-> <<>>]

NoDir == [exists |-> FALSE, ents |-> [n \in Names |-> NoEntry]]
NoFile == [exists |-> FALSE, data |-> <<>>]
NoRendered == [exists |-> FALSE, tmpl |-> "", data |-> None]
StaleRendered == [exists |-> TRUE, tmpl |-> "stale", data |-> None]

\* os.listdir(authorized_principals)
listdir(dir) == {n \in Names : dir.ents[n].kind # "none"}

\* os.path.isfile(os.path.join(authorized_principals, n))
isfile(dir, n) == dir.ents[n].kind = "file"

Ev(op, path, name) == [op |-> op, path |-> path, name |-> name]

\* the threaded program state: filesystem, log, pending exception, the
\* filesystem after each mutation made so far (hist), and the order in
\* which os.listdir returns the names of the principal directory (order)
Raise(st, e) == [st EXCEPT !.exc = e]
Logged(st, e) == [st EXCEPT !.log = Append(@, e), !.hist = Append(@, st.fs)]

\* os.listdir returns the entries in arbitrary order; the order shows only
\* when at least two regular files can be removed in one pass
AllOrders == {o \in [1..Cardinality(Names) -> Names] : {o[i] : i \in DOMAIN o} = Names}
ListdirOrders(dir) ==
    IF Cardinality({n \in Names : isfile(dir, n)}) >= 2 THEN AllOrders
    ELSE {CHOOSE o \in AllOrders : TRUE}

\* the os.remove calls of one directory pass over the names in gone, in
\* listing order, from position i on
RECURSIVE RemoveLoop(_, _, _)
RemoveLoop(st, gone, i) ==
    IF i > Len(st.order) THEN st
    ELSE IF st.order[i] \in gone
    THEN RemoveLoop(Logged([st EXCEPT !.fs.dir.ents[st.order[i]] = NoEntry],
                           Ev("remove", authorized_principals, st.order[i])),
                    gone, i + 1)
    ELSE RemoveLoop(st, gone, i + 1)

\* the names the first loop of cleanup_authorized_principals_dir removes
Unnecessary(dir, valid_users) ==
    {n \in listdir(dir) : isfile(dir, n) /\ n \notin Range(valid_users)}

\* faulty variant: the directory is never removed
RmdirIfEmpty_Never(st) == st

\* the final test of cleanup_authorized_principals_dir: rmdir when the listing is empty
RmdirIfEmpty(st) ==
    IF listdir(st.fs.dir) = {}
    THEN Logged([st EXCEPT !.fs.dir.exists = FALSE],
                Ev("rmdir", authorized_principals, ""))
    ELSE st

\* faulty variant: the emptiness test runs before the removals instead of after them
cleanup_RmdirFirst(st, valid_users) ==
    IF ~st.fs.dir.exists THEN st
    ELSE IF listdir(st.fs.dir) = {}
    THEN Logged([st EXCEPT !.fs.dir.exists = FALSE], Ev("rmdir", authorized_principals, ""))
    ELSE RemoveLoop(st, {n \in listdir(st.fs.dir) :
                           isfile(st.fs.dir, n) /\ n \notin Range(valid_users)}, 1)

cleanup_authorized_principals_dir(st, valid_users) ==
    IF ~st.fs.dir.exists THEN st
    ELSE RmdirIfEmpty(RemoveLoop(st, Unnecessary(st.fs.dir, valid_users), 1))

\* write_file(os.path.join(authorized_principals, name), data): creates or
\* overwrites the regular file; fails when the path is a directory
write_principal_file(st, name, data) ==
    IF st.fs.dir.ents[name].kind = "dir" THEN Raise(st, "IOError")
    ELSE Logged([st EXCEPT !.fs.dir.exists = TRUE,
                           !.fs.dir.ents[name] = FileEntry(data)],
                Ev("write", authorized_principals, name))

\* principals of one bound user, a plain string becoming a one-element list
PrincipalList(v) == IF v.kind = "str" THEN <<v.s>> ELSE v.l

\* contents of one principal file
Contents(principals) == Join(principals, NL) \o <<NL>>

\* os.makedirs(authorized_principals, exist_ok=True) when it is no directory
EnsureDir(st) ==
    IF ~st.fs.dir.exists
    THEN Logged([st EXCEPT !.fs.dir.exists = TRUE], Ev("makedirs", authorized_principals, ""))
    ELSE st

\* the loop over ssh['trusted_user_ca_key']['bind-user'].items(), from item i on
RECURSIVE BindLoop(_, _, _, _)
BindLoop(st, s, i, configured_users) ==
    IF i > Len(s.tca.bind) THEN [st |-> st, users |-> configured_users]
    ELSE LET bind_user == s.tca.bind[i].user
             bind_user_config == s.tca.bind[i].principal
         IN  IF bind_user \notin s.login_users
             THEN [st |-> Raise(st, "ConfigError"), users |-> configured_users]
             ELSE IF bind_user_config.kind = "missing"
             THEN [st |-> Raise(st, "ConfigError"), users |-> configured_users]
             ELSE LET st1 == EnsureDir(st)
                      st2 == write_principal_file(st1, bind_user,
                                 Contents(PrincipalList(bind_user_config)))
                  IN  IF st2.exc # "none"
                      THEN [st |-> st2, users |-> configured_users]
                      ELSE BindLoop(st2, s, i + 1, Append(configured_users, bind_user))

\* lines 96-118: write every bound user's file, then prune
ReconcileBound(st, s) ==
    LET r == BindLoop(st, s, 1, <<>>)
    IN  IF r.st.exc # "none" THEN r.st
        ELSE cleanup_authorized_principals_dir(r.st, r.users)

\* faulty variant: the stale trust-anchor file is removed but the principal
\* directory is left as it is
HandleNoTca_NoCleanup(st) ==
    IF st.fs.tca.exists
    THEN Logged([st EXCEPT !.fs.tca = NoFile], Ev("unlink", trusted_user_ca_key, ""))
    ELSE st

\* faulty variant: the directory cleanup is nested under the test for the
\* trust-anchor file
HandleNoTca_CleanupIfFile(st) ==
    IF st.fs.tca.exists
    THEN cleanup_authorized_principals_dir(
             Logged([st EXCEPT !.fs.tca = NoFile], Ev("unlink", trusted_user_ca_key, "")),
             <<>>)
    ELSE st

\* lines 67-73: 'trusted_user_ca_key' not in ssh
HandleNoTca(st) ==
    LET st1 == IF st.fs.tca.exists
               THEN Logged([st EXCEPT !.fs.tca = NoFile],
                           Ev("unlink", trusted_user_ca_key, ""))
               ELSE st
    IN  cleanup_authorized_principals_dir(st1, <<>>)

\* faulty variant: the chain is written root first
TcaData_Reversed(ca_full_chain) ==
    Join([i \in 1..Len(ca_full_chain) |->
            encode_certificate(ca_full_chain[Len(ca_full_chain) + 1 - i])], NL)

\* line 88: the text written to the trust-anchor file
TcaData(ca_full_chain) ==
    Join([i \in 1..Len(ca_full_chain) |-> encode_certificate(ca_full_chain[i])], NL)

\* faulty variant: without bind-user the principal directory is left as it is
CollapseUnbound_Skip(st) == st

\* lines 91-94: 'bind-user' not in ssh['trusted_user_ca_key']
CollapseUnbound(st) == cleanup_authorized_principals_dir(st, <<>>)

\* key in ssh['trusted_user_ca_key'], for the key of the binding map
InTca(key, s) == s.tca.has_bind /\ s.tca.bind_key = key

handle_trusted_user_ca_key(st, s) ==
    IF ~s.tca.present THEN HandleNoTca(st)
    ELSE IF ~s.tca.has_ca \/ s.tca.ca \notin DOMAIN s.pki THEN Raise(st, "KeyError")
    ELSE IF ~s.pki[s.tca.ca].has_cert THEN Raise(st, "KeyError")
    ELSE IF \E n \in DOMAIN s.pki : s.pki[n].has_cert /\ s.pki[n].cert \notin Pems
    THEN Raise(st, "LoadError")
    ELSE LET loaded_ca_cert == load_certificate(s.pki[s.tca.ca].cert)
             loaded_ca_certs == {load_certificate(s.pki[n].cert) :
                                   n \in {m \in DOMAIN s.pki : s.pki[m].has_cert}}
             found == find_chain(loaded_ca_cert, loaded_ca_certs)
             ca_full_chain == found.chain
         IN  IF ~found.ok THEN Raise(st, "IncompleteChainError")
             ELSE LET st1 == Logged([st EXCEPT !.fs.tca = [exists |-> TRUE,
                                                           data |-> TcaData(ca_full_chain)]],
                                    Ev("write", trusted_user_ca_key, ""))
                  IN  IF ~InTca("bind-user", s)
                      THEN CollapseUnbound(st1)
                      ELSE ReconcileBound(st1, s)

----------------------------------------------------------------------------
(* The stages *)

\* verify_pki_ca_certificate(ssh, ca_key_name): the CA must be in the pki
\* and carry a 'certificate'
verify_pki_ca_certificate(s, ca_name) ==
    IF ca_name \notin DOMAIN s.pki THEN "ConfigError"
    ELSE IF ~s.pki[ca_name].has_cert THEN "ConfigError"
    ELSE "none"

\* verify_vrf(ssh): every declared VRF must exist on the host
verify_vrf(s) == IF s.vrf_missing THEN "ConfigError" ELSE "none"

\* faulty variant: a 'certificate' that is present but empty is accepted
verify_EmptyCertificate(s) ==
    IF ~s.present THEN "none"
    ELSE IF s.rekey = "nodata" THEN "ConfigError"
    ELSE IF s.tca.present /\ ~s.tca.has_ca THEN "ConfigError"
    ELSE IF s.tca.present /\ verify_pki_ca_certificate(s, s.tca.ca) # "none"
    THEN "ConfigError"
    ELSE verify_vrf(s)

\* verify(ssh): the exception it raises, "none" when it returns
verify(s) ==
    IF ~s.present THEN "none"
    ELSE IF s.rekey = "nodata" THEN "ConfigError"
    ELSE IF s.tca.present /\ ~s.tca.has_ca THEN "ConfigError"
    ELSE IF s.tca.present /\ verify_pki_ca_certificate(s, s.tca.ca) # "none"
    THEN "ConfigError"
    ELSE IF s.tca.present /\ s.pki[s.tca.ca].cert = "" THEN "ConfigError"
    ELSE verify_vrf(s)

KeyPath(t) ==
    CASE t = "rsa" -> "/etc/ssh/ssh_host_rsa_key"
      [] t = "dsa" -> "/etc/ssh/ssh_host_dsa_key"
      [] t = "ed25519" -> "/etc/ssh/ssh_host_ed25519_key"

\* faulty variant: the key is generated whether or not its file exists
EnsureKey_Always(st, t) ==
    Logged([st EXCEPT !.fs.keys = @ \cup {t}], Ev("keygen", KeyPath(t), t))

\* one "if not os.path.isfile(key): call(ssh-keygen ...)" of generate
EnsureKey(st, t) ==
    IF t \notin st.fs.keys
    THEN Logged([st EXCEPT !.fs.keys = @ \cup {t}], Ev("keygen", KeyPath(t), t))
    ELSE st

\* render(path, template, ssh) for the three rendered files
RenderConf(st, s) ==
    Logged([st EXCEPT !.fs.conf = [exists |-> TRUE, tmpl |-> "ssh/sshd_config.j2", data |-> s]],
           Ev("render", config_file, ""))
RenderGuard(st, s) ==
    Logged([st EXCEPT !.fs.guard = [exists |-> TRUE, tmpl |-> "ssh/sshguard_config.j2", data |-> s]],
           Ev("render", sshguard_config_file, ""))
RenderWhite(st, s) ==
    Logged([st EXCEPT !.fs.white = [exists |-> TRUE, tmpl |-> "ssh/sshguard_whitelist.j2", data |-> s]],
           Ev("render", sshguard_whitelist, ""))

\* faulty variant: the sshguard files are rendered whatever the snapshot says
RenderSidecar_Always(st, s) == RenderWhite(RenderGuard(st, s), s)

\* lines 208-210 of generate: if 'dynamic_protection' in ssh
RenderSidecar(st, s) ==
    IF s.dynamic_protection THEN RenderWhite(RenderGuard(st, s), s) ELSE st

\* faulty variant: the config file of a removed service is left behind
GenerateRemoved_Keep(st) == st

\* lines 186-190 of generate: the snapshot is absent
GenerateRemoved(st) ==
    IF st.fs.conf.exists
    THEN Logged([st EXCEPT !.fs.conf = NoRendered], Ev("unlink", config_file, ""))
    ELSE st

generate(st, s) ==
    IF ~s.present THEN GenerateRemoved(st)
    ELSE LET k1 == EnsureKey(st, KeyTypes[1])
             k2 == EnsureKey(k1, KeyTypes[2])
             k3 == EnsureKey(k2, KeyTypes[3])
             st1 == handle_trusted_user_ca_key(k3, s)
         IN  IF st1.exc # "none" THEN st1
             ELSE RenderSidecar(RenderConf(st1, s), s)

\* call(f'systemctl {action} {unit}')
Call(st, action, unit, inst) == Logged(st, Ev(action, unit, inst))

\* faulty variant: the test on dynamic_protection is inverted
SidecarAction_Inverted(s) == IF s.dynamic_protection THEN "stop" ELSE "reload-or-restart"

\* the action apply takes on sshguard.service for a present snapshot
SidecarAction(s) == IF ~s.dynamic_protection THEN "stop" ELSE "reload-or-restart"

\* for vrf in ssh['vrf']: call(f'systemctl {systemd_action} ssh@{vrf}.service')
RECURSIVE VrfLoop(_, _, _, _)
VrfLoop(st, s, systemd_action, i) ==
    IF i > Len(s.vrf) THEN st
    ELSE VrfLoop(Call(st, systemd_action, ssh_service, s.vrf[i]), s, systemd_action, i + 1)

\* faulty variant: the restart path forgets to stop the running instances first
ApplyVrfs_NoStop(st, s) ==
    IF s.restart_required
    THEN VrfLoop(st, s, "restart", 1)
    ELSE VrfLoop(st, s, "reload-or-restart", 1)

\* faulty variant: the instances are only ever reloaded or restarted
ApplyVrfs_ReloadOnly(st, s) == VrfLoop(st, s, "reload-or-restart", 1)

\* faulty variant: the restart path is taken whatever restart_required is
ApplyVrfs_AlwaysRestart(st, s) ==
    VrfLoop(Call(st, "stop", ssh_service, Wildcard), s, "restart", 1)

\* lines 228-238 of apply
ApplyVrfs(st, s) ==
    IF s.restart_required
    THEN VrfLoop(Call(st, "stop", ssh_service, Wildcard), s, "restart", 1)
    ELSE VrfLoop(st, s, "reload-or-restart", 1)

\* faulty variant: the sidecar is left running when the service is removed
ApplyRemoved_NoSidecar(st) == Call(st, "stop", ssh_service, Wildcard)

\* lines 217-221 of apply
ApplyRemoved(st) ==
    Call(Call(st, "stop", ssh_service, Wildcard), "stop", systemd_service_sshguard, "")

apply(st, s) ==
    IF ~s.present THEN ApplyRemoved(st)
    ELSE ApplyVrfs(Call(st, SidecarAction(s), systemd_service_sshguard, ""), s)

\* the values isinstance(e, ConfigError) can have: the class of find_chain's
\* IncompleteChainError is defined outside this script, as a subclass of
\* ConfigError or not
IsConfigError(e) ==
    IF e = "ConfigError" THEN {TRUE}
    ELSE IF e = "IncompleteChainError" THEN BOOLEAN
    ELSE {FALSE}

\* the except clause of __main__ (lines 246-248): exit(1) on an instance of
\* ConfigError; any other exception leaves the script uncaught
MainExcept(e) == {IF b THEN "exit1" ELSE "uncaught" : b \in IsConfigError(e)}

\* faulty variant: an exception of verify does not end the run
AfterVerify_Continue(e) == {"generate"}

\* where __main__ can go after verify(c), generate(c), apply(c)
AfterVerify(e) == IF e = "none" THEN {"generate"} ELSE MainExcept(e)
AfterGenerate(e) == IF e = "none" THEN {"apply"} ELSE MainExcept(e)
AfterApply(e) == IF e = "none" THEN {"done"} ELSE MainExcept(e)

----------------------------------------------------------------------------
(* Initial states: the script has not run; the filesystem is whatever      *)
(* earlier commits or the administrator left.                              *)

StalePrincipals == <<"p1", NL>>

DirStates ==
    {NoDir} \cup
    {[exists |-> TRUE, ents |-> e] :
        e \in [Names -> {NoEntry, FileEntry(StalePrincipals), SubDir}]}

AllKeys == Range(KeyTypes)
StaleTca == [exists |-> TRUE, data |-> <<"pem_root">>]

\* nothing on disk
NoFs == [keys |-> {}, tca |-> NoFile, dir |-> NoDir, conf |-> NoRendered,
         guard |-> NoRendered, white |-> NoRendered]

FsInit ==
    {[keys |-> AllKeys, tca |-> t, dir |-> d, conf |-> NoRendered,
      guard |-> NoRendered, white |-> NoRendered] :
        t \in {NoFile, StaleTca}, d \in DirStates}
    \cup
    {[keys |-> k, tca |-> NoFile, dir |-> NoDir, conf |-> NoRendered,
      guard |-> NoRendered, white |-> NoRendered] : k \in SUBSET AllKeys}
    \cup
    {[keys |-> AllKeys, tca |-> NoFile, dir |-> NoDir, conf |-> c, guard |-> g, white |-> g] :
        c \in {NoRendered, StaleRendered}, g \in {NoRendered, StaleRendered}}

\* the ssh-keygen calls for key type t recorded in log l
KeygenCalls(l, t) ==
    Cardinality({i \in 1..Len(l) : l[i] = Ev("keygen", KeyPath(t), t)})

NoTarget == [on |-> FALSE, fs |-> NoFs]

\* the program state a stage starts from
StageStart(ord) == [fs |-> fs, log |-> log, exc |-> "none", hist |-> <<>>, order |-> ord]

Init ==
    /\ pc = "get_config"
    /\ ssh = None
    /\ fs \in FsInit
    /\ fs0 = fs
    /\ log = <<>>
    /\ exc = "none"
    /\ raisedIn = "none"
    /\ stages = <<>>
    /\ repeat = FALSE
    /\ runs = 1
    /\ keys0 = fs.keys
    /\ keygens = [t \in AllKeys |-> 0]
    /\ crashes = 0
    /\ target = NoTarget
    /\ running = {}
    /\ applied = {}
    /\ rrExact = TRUE

\* the ssh@<vrf>.service instances running after the systemctl calls
\* l[i], l[i+1], ... are made with the instances of run running
RECURSIVE Systemctl(_, _, _)
Systemctl(run, l, i) ==
    IF i > Len(l) THEN run
    ELSE IF l[i].path # ssh_service THEN Systemctl(run, l, i + 1)
    ELSE IF l[i].op = "stop"
    THEN Systemctl(IF l[i].name = Wildcard THEN {} ELSE run \ {l[i].name}, l, i + 1)
    ELSE IF l[i].op \in {"restart", "reload-or-restart"}
    THEN Systemctl(run \cup {l[i].name}, l, i + 1)
    ELSE Systemctl(run, l, i + 1)

\* the VRFs a snapshot declares, none when the service is removed
DeclaredVrfs(s) == IF s.present THEN Range(s.vrf) ELSE {}

\* is_node_changed(conf, base + ['vrf']): the vrf node differs from the one
\* of the configuration applied last
VrfChanged(s) == DeclaredVrfs(s) # applied

\* c = get_config(): the committed configuration, one of first in the first
\* run and the previous one again or one of later from the second run on;
\* the run after a killed run is the same commit again
GetConfigOf(first, later) ==
    /\ pc = "get_config"
    /\ \E c \in (IF repeat THEN {ssh}
                 ELSE IF runs = 1 THEN first ELSE {ssh} \cup later) :
          /\ ssh' = c
          /\ repeat' = (runs > 1 /\ c = ssh)
          /\ target' = IF c = ssh THEN target ELSE NoTarget
          /\ rrExact' = (rrExact /\ (c.present => (c.restart_required <=> VrfChanged(c))))
    /\ pc' = "verify"
    /\ stages' = Append(stages, "get_config")
    /\ UNCHANGED <<fs, log, exc, raisedIn, fs0, runs, keys0, keygens, crashes,
                   running, applied>>

GetConfig == GetConfigOf(Snapshots, LaterSnapshots)

\* verify(c)
Verify ==
    /\ pc = "verify"
    /\ LET e == verify(ssh)
       IN  /\ exc' = e
           /\ raisedIn' = IF e = "none" THEN "none" ELSE "verify"
           /\ pc' \in AfterVerify(e)
    /\ stages' = Append(stages, "verify")
    /\ UNCHANGED <<ssh, fs, log, fs0, repeat, runs, hvars, svars>>

\* generate(c)
Generate ==
    /\ pc = "generate"
    /\ \E ord \in ListdirOrders(fs.dir) :
       LET st == generate(StageStart(ord), ssh)
       IN  /\ fs' = st.fs
           /\ log' = st.log
           /\ exc' = st.exc
           /\ raisedIn' = IF st.exc = "none" THEN "none" ELSE "generate"
           /\ pc' \in AfterGenerate(st.exc)
           /\ keygens' = [t \in AllKeys |-> keygens[t] + KeygenCalls(st.log, t)]
    /\ stages' = Append(stages, "generate")
    /\ UNCHANGED <<ssh, fs0, repeat, runs, keys0, crashes, target, svars>>

\* apply(c)
Apply ==
    /\ pc = "apply"
    /\ LET st == apply(StageStart(CHOOSE o \in AllOrders : TRUE), ssh)
       IN  /\ fs' = st.fs
           /\ log' = st.log
           /\ exc' = st.exc
           /\ raisedIn' = IF st.exc = "none" THEN "none" ELSE "apply"
           /\ pc' \in AfterApply(st.exc)
           /\ running' = Systemctl(running, st.log, Len(log) + 1)
           /\ applied' = IF st.exc = "none" THEN DeclaredVrfs(ssh) ELSE applied
    /\ stages' = Append(stages, "apply")
    /\ UNCHANGED <<ssh, fs0, repeat, runs, hvars, rrExact>>

Ended == pc \in {"done", "exit1", "uncaught"}

\* the next commit starts the script again on the filesystem the last run left
NextRun ==
    /\ Ended \/ pc = "crashed"
    /\ runs < MaxRuns
    /\ pc' = "get_config"
    /\ runs' = runs + 1
    /\ fs0' = fs
    /\ log' = <<>>
    /\ exc' = "none"
    /\ raisedIn' = "none"
    /\ stages' = <<>>
    /\ repeat' = (pc = "crashed")
    /\ target' = IF pc = "crashed" THEN target ELSE NoTarget
    /\ UNCHANGED <<ssh, fs, keys0, keygens, crashes, svars>>

Next == GetConfig \/ Verify \/ Generate \/ Apply \/ NextRun

Spec == Init /\ [][Next]_vars

\* the script is killed during generate(c), after k of the filesystem
\* mutations generate would make
Crash ==
    /\ pc = "generate"
    /\ crashes < MaxCrashes
    /\ \E ord \in ListdirOrders(fs.dir) :
       LET full == generate(StageStart(ord), ssh)
           n == Len(full.hist)
       IN  \E k \in 0..n :
             /\ fs' = IF k = 0 THEN fs ELSE full.hist[k]
             /\ log' = SubSeq(full.log, 1, Len(log) + k)
             /\ keygens' = [t \in AllKeys |->
                               keygens[t] + KeygenCalls(SubSeq(full.log, 1, Len(log) + k), t)]
             /\ target' = IF target.on THEN target
                          ELSE IF full.exc = "none" THEN [on |-> TRUE, fs |-> full.fs]
                          ELSE NoTarget
    /\ pc' = "crashed"
    /\ exc' = "Killed"
    /\ raisedIn' = "generate"
    /\ crashes' = crashes + 1
    /\ stages' = Append(stages, "generate")
    /\ UNCHANGED <<ssh, fs0, repeat, runs, keys0, svars>>

\* the snapshots of the runs that may be killed
CrashBinds ==
    {<<>>,
     <<Item("alice", StrPrincipal("p1"))>>,
     <<Item("alice", ListPrincipal(<<"p1", "p2">>)), Item("bob", StrPrincipal("p2"))>>,
     <<Item("bob", ListPrincipal(<<"p2">>)), Item("alice", NoPrincipal)>>}

CrashSnapshots ==
    {None} \cup
    {[BaseSsh EXCEPT !.tca = t, !.dynamic_protection = dp] :
        t \in {NoTca, GoodTca} \cup
                {[GoodTca EXCEPT !.has_bind = TRUE, !.bind = b] : b \in CrashBinds},
        dp \in BOOLEAN}

GetConfigCrash == GetConfigOf(CrashSnapshots, CrashSnapshots)

GetConfigChain == GetConfigOf(SnapChain, {None})

NextChain == GetConfigChain \/ Verify \/ Generate \/ Apply \/ NextRun

SpecChain == Init /\ [][NextChain]_vars

NextCrash == GetConfigCrash \/ Verify \/ Generate \/ Apply \/ NextRun \/ Crash

\* the pipeline with runs that may be killed during generate
SpecCrash == Init /\ [][NextCrash]_vars

----------------------------------------------------------------------------
(* Vocabulary of the properties *)

MainStages == <<"get_config", "verify", "generate", "apply">>

IsPrefix(a, b) == Len(a) <= Len(b) /\ \A i \in 1..Len(a) : a[i] = b[i]

\* generate returned in the current run
GenerateReturned == pc \in {"apply", "done"}

\* the desired user -> principals mapping handed to the reconciler
HasBindings(s) == s.present /\ s.tca.present /\ s.tca.has_bind
DesiredUsers(s) == {s.tca.bind[i].user : i \in 1..Len(s.tca.bind)}
NonEmptyDesired(s) == HasBindings(s) /\ s.tca.bind # <<>>
EmptyDesired(s) == s.present /\ ~NonEmptyDesired(s)

\* a binding that names an unknown login user or declares no principal
BadBinding(s) ==
    /\ HasBindings(s)
    /\ \E i \in 1..Len(s.tca.bind) :
          \/ s.tca.bind[i].user \notin s.login_users
          \/ s.tca.bind[i].principal.kind = "missing"

\* c is the principals of v, each followed by a newline
IsPrincipalText(c, v) ==
    IF v.kind = "str" THEN c = <<v.s, NL>>
    ELSE /\ Len(c) = 2 * Len(v.l)
         /\ \A k \in 1..Len(v.l) : c[2 * k - 1] = v.l[k] /\ c[2 * k] = NL

OnlyFilesIn(dir) == \A n \in Names : dir.ents[n].kind # "dir"

IsSystemctl(e) == e.op \in {"stop", "restart", "reload-or-restart"}
SystemctlCalls == SelectSeq(log, IsSystemctl)
DirEvents == {i \in 1..Len(log) : log[i].path = authorized_principals}

----------------------------------------------------------------------------
(* C1: a snapshot with a bound user that is no login user, or that declares *)
(* no principal, is rejected by verify with ConfigError before anything has *)
(* been written, removed or called.  (Stated for snapshots that are         *)
(* otherwise in order and a principal directory holding only files.)        *)
C1_RejectedByVerify ==
    (Ended /\ BadBinding(ssh) /\ ssh \in SnapBind /\ OnlyFilesIn(fs0.dir))
        => /\ pc = "exit1"
           /\ exc = "ConfigError"
           /\ raisedIn = "verify"
           /\ fs = fs0
           /\ log = <<>>

(* C2: the stages run in the order get_config, verify, generate, apply; a   *)
(* ConfigError raised by verify ends the run with exit status 1 before      *)
(* generate or apply has run.                                               *)
C2_StageOrder ==
    /\ IsPrefix(stages, MainStages)
    /\ (pc \in {"verify", "generate", "apply"}) =>
          (Len(stages) < Len(MainStages) /\ pc = MainStages[Len(stages) + 1])
    /\ raisedIn = "verify" =>
          /\ pc = "exit1"
          /\ stages = <<"get_config", "verify">>
          /\ fs = fs0
          /\ log = <<>>

C2_Witness == pc = "exit1" /\ raisedIn = "verify" /\ exc = "ConfigError"

(* C3 as claimed: when generate has returned for a snapshot whose trust      *)
(* anchor binds users (a non-empty desired mapping), the principal          *)
(* directory exists and holds, for each bound user, a regular file named    *)
(* after the user with the user's principals, one per line, each line ended *)
(* by a newline.                                                            *)
C3_DesiredFilesWritten ==
    (GenerateReturned /\ NonEmptyDesired(ssh)) =>
        /\ fs.dir.exists
        /\ \A i \in 1..Len(ssh.tca.bind) :
              LET e == fs.dir.ents[ssh.tca.bind[i].user]
              IN  e.kind = "file" /\ IsPrincipalText(e.data, ssh.tca.bind[i].principal)

(* C4 as claimed: when generate has returned for a snapshot whose trust      *)
(* anchor binds users, no entry is left in the principal directory under a  *)
(* name that is no bound user, every removal follows the writes of all      *)
(* bound users' files, and no bound user's file is removed.  (Stated for a  *)
(* principal directory that held regular files only.)                       *)
C4_PruningSparesDesired ==
    (GenerateReturned /\ NonEmptyDesired(ssh) /\ OnlyFilesIn(fs0.dir)) =>
        /\ \A n \in Names \ DesiredUsers(ssh) : fs.dir.ents[n].kind = "none"
        /\ \A u \in DesiredUsers(ssh) :
              \E j \in DirEvents : log[j].op = "write" /\ log[j].name = u
        /\ \A i \in DirEvents : log[i].op = "remove" =>
              /\ log[i].name \notin DesiredUsers(ssh)
              /\ \A j \in DirEvents : log[j].op = "write" => j < i

(* C5 as claimed: reconciling with an empty desired mapping removes an      *)
(* existing principal directory with all of its contents, and changes       *)
(* nothing when the directory does not exist.                               *)
C5_DirectoryGone ==
    (GenerateReturned /\ EmptyDesired(ssh)) =>
        IF fs0.dir.exists THEN fs.dir = NoDir ELSE fs.dir = fs0.dir

(* C5 amended: reconciling with an empty desired mapping deletes every      *)
(* regular file of an existing principal directory and leaves its           *)
(* subdirectories; the directory itself is removed exactly when it held no  *)
(* subdirectory; when the directory does not exist nothing is changed.      *)
C5_EmptyCollapse ==
    (GenerateReturned /\ EmptyDesired(ssh)) =>
        IF fs0.dir.exists
        THEN /\ \A n \in Names :
                  fs.dir.ents[n] = IF fs0.dir.ents[n].kind = "dir" THEN SubDir ELSE NoEntry
             /\ fs.dir.exists <=> ~OnlyFilesIn(fs0.dir)
        ELSE fs.dir = fs0.dir /\ DirEvents = {}

C5_Witness ==
    /\ pc = "done"
    /\ EmptyDesired(ssh)
    /\ fs0.dir.exists
    /\ Cardinality({n \in Names : fs0.dir.ents[n].kind = "file"}) >= 2
    /\ fs.dir = NoDir

(* C6: a run that repeats the snapshot of the run before it leaves the      *)
(* principal directory (existence, names, contents) as that run left it.    *)
C6_Idempotent == (Ended /\ repeat) => fs.dir = fs0.dir

C6_Witness ==
    /\ pc = "done"
    /\ repeat
    /\ NonEmptyDesired(ssh)
    /\ fs0.dir.exists /\ fs0.dir.ents["carol"].kind = "dir"
    /\ fs0.dir.ents["alice"].kind = "none"
    /\ \E j \in 1..Len(log) : log[j] = Ev("write", trusted_user_ca_key, "")
    /\ fs.dir = fs0.dir

(* C7: on an absent snapshot apply issues a stop of all ssh instances and a *)
(* stop of the sidecar, and no other systemctl call.                        *)
C7_RemovalStopsAll ==
    (pc = "done" /\ ~ssh.present) =>
        SystemctlCalls = <<Ev("stop", ssh_service, Wildcard),
                           Ev("stop", systemd_service_sshguard, "")>>

C7_Witness == pc = "done" /\ ~ssh.present /\ runs = 2 /\ fs0.tca.exists

SshCalls == SelectSeq(SystemctlCalls, LAMBDA e : e.path = ssh_service)
SidecarCalls == SelectSeq(SystemctlCalls, LAMBDA e : e.path = systemd_service_sshguard)

(* C8: with restart_required set, apply stops all ssh instances before any  *)
(* per-VRF call, then restarts every declared VRF and no other instance,    *)
(* and reload-or-restarts no ssh instance.                                  *)
C8_RestartPath ==
    (pc = "done" /\ ssh.present /\ ssh.restart_required) =>
        /\ Len(SshCalls) = Len(ssh.vrf) + 1
        /\ SshCalls[1] = Ev("stop", ssh_service, Wildcard)
        /\ \A i \in 2..Len(SshCalls) :
              SshCalls[i].op = "restart" /\ SshCalls[i].name \in Range(ssh.vrf)
        /\ \A v \in Range(ssh.vrf) :
              \E i \in 2..Len(SshCalls) : SshCalls[i] = Ev("restart", ssh_service, v)

C8_Witness ==
    pc = "done" /\ ssh.present /\ ssh.restart_required /\ Len(ssh.vrf) = 2

(* C9: without restart_required, apply on a present snapshot issues         *)
(* reload-or-restart exactly once per declared VRF, no wildcard stop and no *)
(* restart; no apply issues both a restart and a reload-or-restart of ssh   *)
(* instances.                                                               *)
C9_ReloadPath ==
    /\ (pc = "done" /\ ssh.present /\ ~ssh.restart_required) =>
          /\ \A v \in Range(ssh.vrf) :
                Cardinality({i \in 1..Len(SshCalls) :
                               SshCalls[i] = Ev("reload-or-restart", ssh_service, v)}) = 1
          /\ \A i \in 1..Len(SshCalls) :
                SshCalls[i].op = "reload-or-restart" /\ SshCalls[i].name \in Range(ssh.vrf)
    /\ (pc = "done" /\ ssh.present) =>
          ~ /\ \E i \in 1..Len(SshCalls) : SshCalls[i].op = "restart"
            /\ \E i \in 1..Len(SshCalls) : SshCalls[i].op = "reload-or-restart"

C9_Witness ==
    pc = "done" /\ ssh.present /\ ~ssh.restart_required /\ Len(ssh.vrf) = 2

(* C10: apply on a present snapshot issues exactly one call for the         *)
(* sidecar: stop when dynamic protection is not configured,                 *)
(* reload-or-restart when it is, whatever restart_required is.              *)
C10_SidecarOnce ==
    (pc = "done" /\ ssh.present) =>
        SidecarCalls = <<Ev(IF ssh.dynamic_protection THEN "reload-or-restart" ELSE "stop",
                            systemd_service_sshguard, "")>>

C10_Witness ==
    pc = "done" /\ ssh.present /\ ssh.dynamic_protection /\ ssh.restart_required

(* C11: over any sequence of runs, a host key whose file exists is never    *)
(* generated again, a key whose file was missing at the start is generated  *)
(* exactly once, by the first generate on a present snapshot, after which   *)
(* all three key files exist.                                               *)
GenerateEntered == Len(stages) >= 3
C11_KeysGeneratedOnce ==
    /\ \A t \in AllKeys :
          /\ t \in keys0 => keygens[t] = 0
          /\ keygens[t] <= 1
          /\ keygens[t] = 1 <=> (t \notin keys0 /\ t \in fs.keys)
    /\ keys0 \subseteq fs.keys
    /\ (GenerateEntered /\ ssh.present) => fs.keys = AllKeys

C11_Witness ==
    /\ runs = 2
    /\ pc = "done"
    /\ ssh.present
    /\ keys0 = {"dsa"}
    /\ KeygenCalls(log, "rsa") = 0
    /\ keygens = [t \in AllKeys |-> IF t = "dsa" THEN 0 ELSE 1]

(* C12: when generate has run on a present snapshot without a trust anchor, *)
(* the trust-anchor file does not exist and no principal file is left; a    *)
(* principal directory holding what earlier runs left there (regular files  *)
(* only) is gone altogether.                                                *)
C12_NoTrustAnchor ==
    (GenerateReturned /\ ssh.present /\ ~ssh.tca.present) =>
        /\ ~fs.tca.exists
        /\ \A n \in Names : fs.dir.ents[n].kind # "file"
        /\ OnlyFilesIn(fs0.dir) => fs.dir = NoDir

C12_Witness ==
    /\ runs = 2
    /\ pc = "done"
    /\ ssh.present /\ ~ssh.tca.present
    /\ fs0.tca.exists
    /\ fs0.dir.exists
    /\ fs0.dir.ents["alice"].kind = "file" /\ fs0.dir.ents["bob"].kind = "file"
    /\ fs.dir = NoDir /\ ~fs.tca.exists

(* C13 as claimed: on an absent snapshot it is apply that removes the       *)
(* primary config file, so the file is as the run found it when apply       *)
(* starts.                                                                  *)
C13_ApplyRemovesConfig ==
    (pc = "apply" /\ ~ssh.present) => fs.conf = fs0.conf

(* C13 amended: on an absent snapshot generate removes the primary config   *)
(* file and apply, which touches no file, stops all ssh instances; after    *)
(* the run the primary config file does not exist.                          *)
C13_ConfigRemoved ==
    /\ (pc \in {"apply", "done"} /\ ~ssh.present) =>
          /\ ~fs.conf.exists
          /\ fs = [fs0 EXCEPT !.conf = NoRendered]
    /\ (pc = "done" /\ ~ssh.present) =>
          \E i \in 1..Len(log) :
             /\ log[i] = Ev("stop", ssh_service, Wildcard)
             /\ \A j \in 1..Len(log) : log[j].op = "unlink" => j < i

C13_Witness ==
    pc = "done" /\ ~ssh.present /\ fs0.conf.exists /\ ~fs.conf.exists

(* C14: when a run is killed during generate, after any number of its       *)
(* filesystem mutations, and the pipeline is run again with the same        *)
(* snapshot, generate leaves the filesystem it would have left without the  *)
(* kill; and a run that repeats the snapshot of a completed run leaves the  *)
(* filesystem as it found it.                                               *)
C14_CrashRecovery ==
    /\ (GenerateReturned /\ repeat /\ target.on) => fs = target.fs
    /\ (pc = "done" /\ repeat /\ ~target.on) => fs = fs0

C14_Witness ==
    /\ pc = "done"
    /\ repeat /\ target.on
    /\ NonEmptyDesired(ssh) /\ Len(ssh.tca.bind) = 2
    /\ fs0.dir.ents[ssh.tca.bind[1].user].kind = "file"
    /\ fs0.dir.ents[ssh.tca.bind[2].user].kind = "none"
    /\ fs0.dir.ents["carol"].kind = "file"
    /\ ~fs0.conf.exists
    /\ fs = target.fs

\* a snapshot verify must reject: a rekey policy without 'data', a trust
\* anchor without 'ca_certificate', or one whose CA has no or an empty
\* 'certificate'
RejectedSnapshot(s) ==
    /\ s.present
    /\ \/ s.rekey = "nodata"
       \/ s.tca.present /\ ~s.tca.has_ca
       \/ /\ s.tca.present /\ s.tca.has_ca
          /\ s.tca.ca \in DOMAIN s.pki
          /\ (~s.pki[s.tca.ca].has_cert \/ s.pki[s.tca.ca].cert = "")

(* C15: the verify step raises ConfigError, ending the run with exit status *)
(* 1, on every snapshot that has a rekey policy without a data source, a    *)
(* trust anchor that names no CA, or a trust anchor whose CA carries no or  *)
(* empty certificate material; on an absent snapshot it raises nothing and  *)
(* the run goes on to generate; and the step changes neither the snapshot   *)
(* nor the filesystem and makes no call.                                    *)
C15_VerifyRejects ==
    [][pc = "verify" =>
          /\ ssh' = ssh /\ fs' = fs /\ log' = log
          /\ RejectedSnapshot(ssh) =>
                 exc' = "ConfigError" /\ raisedIn' = "verify" /\ pc' = "exit1"
          /\ ~ssh.present => exc' = "none" /\ pc' = "generate"]_vars

C15_Witness ==
    /\ pc = "exit1" /\ raisedIn = "verify" /\ exc = "ConfigError"
    /\ ssh.rekey # "nodata"
    /\ ssh.tca.present /\ ssh.tca.has_ca /\ ssh.tca.ca \in DOMAIN ssh.pki
    /\ ssh.pki[ssh.tca.ca].has_cert /\ ssh.pki[ssh.tca.ca].cert = ""
    /\ fs0.tca.exists /\ fs = fs0 /\ log = <<>>

Rendered(tmpl, s) == [exists |-> TRUE, tmpl |-> tmpl, data |-> s]

(* C16: generate renders sshguard's config file and its whitelist only for  *)
(* a snapshot with dynamic_protection: once generate has run on a snapshot   *)
(* without it, or on an absent snapshot, both files are as the run found    *)
(* them and no render of either was made; when generate has returned for a  *)
(* snapshot with dynamic_protection both files are rendered from that       *)
(* snapshot; and when generate has returned for a present snapshot the      *)
(* sshd config file is rendered from it.                                    *)
C16_SidecarFiles ==
    /\ (GenerateEntered /\ ~(ssh.present /\ ssh.dynamic_protection)) =>
          /\ fs.guard = fs0.guard /\ fs.white = fs0.white
          /\ \A i \in 1..Len(log) :
                log[i].op = "render" => log[i].path = config_file
    /\ (GenerateReturned /\ ssh.present /\ ssh.dynamic_protection) =>
          /\ fs.guard = Rendered("ssh/sshguard_config.j2", ssh)
          /\ fs.white = Rendered("ssh/sshguard_whitelist.j2", ssh)
    /\ (GenerateReturned /\ ssh.present) =>
          /\ fs.conf = Rendered("ssh/sshd_config.j2", ssh)
          /\ \E i \in 1..Len(log) : log[i] = Ev("render", config_file, "")

C16_Witness ==
    /\ pc = "done"
    /\ ssh.present /\ ~ssh.dynamic_protection
    /\ fs0.guard.exists /\ fs0.white.exists /\ fs0.conf.exists
    /\ fs.guard = fs0.guard /\ fs.white = fs0.white
    /\ fs.conf # fs0.conf

\* the certificates the snapshot hands to find_chain
TargetCert(s) == load_certificate(s.pki[s.tca.ca].cert)
PoolCerts(s) == {load_certificate(s.pki[n].cert) : n \in {m \in DOMAIN s.pki : s.pki[m].has_cert}}

\* the certificates reached from the certificates of S by issuer-equals-subject
RECURSIVE IssuerClosure(_, _)
IssuerClosure(S, pool) ==
    LET more == S \cup {c \in pool : \E d \in S : c.subject = d.issuer}
    IN  IF more = S THEN S ELSE IssuerClosure(more, pool)

OnPath(s) == IssuerClosure({TargetCert(s)}, PoolCerts(s))
HasIssuerPath(s) == \E c \in OnPath(s) : IsSelfSigned(c)

\* the certificates read back from the text of the trust-anchor file
WellJoined(data) ==
    /\ Len(data) % 2 = 1
    /\ \A i \in 1..Len(data) : (i % 2 = 0) <=> (data[i] = NL)
FileChain(data) == [i \in 1..((Len(data) + 1) \div 2) |-> load_certificate(data[2 * i - 1])]

(* C17: when the pool holds an issuer path from the trust anchor's CA       *)
(* certificate to a self-signed one, find_chain returns and the trust-     *)
(* anchor file holds, one after another and separated by newlines, a chain that    *)
(* starts with that certificate, links every adjacent pair by issuer equals *)
(* subject, ends with a self-signed certificate and holds no certificate of *)
(* the pool that is off the path; when a link is missing, find_chain raises *)
(* IncompleteChainError and the trust-anchor file is not written.           *)
C17_ChainResolved ==
    (GenerateEntered /\ ssh.present /\ ssh.tca.present /\ verify(ssh) = "none") =>
        IF HasIssuerPath(ssh)
        THEN /\ exc # "IncompleteChainError"
             /\ fs.tca.exists /\ WellJoined(fs.tca.data)
             /\ LET chain == FileChain(fs.tca.data)
                IN  /\ chain[1] = TargetCert(ssh)
                    /\ IsSelfSigned(chain[Len(chain)])
                    /\ \A i \in 1..(Len(chain) - 1) :
                          chain[i + 1].subject = chain[i].issuer
                    /\ \A i \in 1..Len(chain) : chain[i] \in OnPath(ssh)
                    /\ \A i, j \in 1..Len(chain) : chain[i] = chain[j] => i = j
        ELSE /\ exc = "IncompleteChainError" /\ raisedIn = "generate"
             /\ fs.tca = fs0.tca
             /\ \A i \in 1..Len(log) : log[i].op # "write"

C17_Witness ==
    /\ pc = "done"
    /\ ssh.tca.present /\ ssh.tca.ca = "pem_sub"
    /\ {"pem_other", "pem_orphan", "pem_a"} \subseteq DOMAIN ssh.pki
    /\ fs0.tca.exists
    /\ fs.tca.data = <<"pem_sub", NL, "pem_int", NL, "pem_root">>

(* C19: as long as restart_required was set, in every snapshot so far,      *)
(* exactly when the declared VRFs differ from the VRFs applied last, the    *)
(* running ssh@<vrf>.service instances are those of the VRFs applied last,  *)
(* and when apply has returned they are the VRFs the current snapshot       *)
(* declares, none for a removed service.                                    *)
C19_RunningIsDeclared ==
    /\ rrExact => running = applied
    /\ (rrExact /\ pc = "done") => running = DeclaredVrfs(ssh)

C19_Witness ==
    /\ pc = "done" /\ rrExact /\ runs = 2
    /\ ssh.present /\ ssh.vrf = <<"mgmt", "red">> /\ ssh.restart_required
    /\ fs0.conf.exists /\ fs0.conf.data.present
    /\ fs0.conf.data.vrf = <<"default", "mgmt">>
    /\ running = {"mgmt", "red"}

(* C20: when generate has returned for a snapshot with a trust anchor and   *)
(* no bound user, the trust-anchor file has been written from the chain of  *)
(* the anchor's CA certificate, no principal file is left, and a principal  *)
(* directory that held regular files only is gone.                          *)
C20_UnboundCollapse ==
    (GenerateReturned /\ ssh.present /\ ssh.tca.present /\ ~NonEmptyDesired(ssh)) =>
        /\ fs.tca = [exists |-> TRUE,
                     data |-> TcaData(find_chain(TargetCert(ssh), PoolCerts(ssh)).chain)]
        /\ \E i \in 1..Len(log) :
              /\ log[i] = Ev("write", trusted_user_ca_key, "")
              /\ \A j \in DirEvents : i < j
        /\ \A n \in Names : fs.dir.ents[n].kind # "file"
        /\ OnlyFilesIn(fs0.dir) => fs.dir = NoDir

C20_Witness ==
    /\ pc = "done"
    /\ ssh.present /\ ssh.tca.present /\ ~ssh.tca.has_bind
    /\ fs0.tca = StaleTca
    /\ fs0.dir.exists
    /\ fs0.dir.ents["alice"].kind = "file" /\ fs0.dir.ents["carol"].kind = "file"
    /\ fs.tca.data = <<"pem_int", NL, "pem_root">>
    /\ fs.dir = NoDir

====
